---- MODULE Spec2Model ----
(***************************************************************************)
(* Model of sorteo-comidas (src/main.py, src/main_terminal.py): the text   *)
(* parser (parse_message), the eligibility model (build_eligibilities),    *)
(* the target computation (target_sizes) and the randomized greedy         *)
(* assignment engine (asignar) with its retry loop.                        *)
(*                                                                         *)
(* Text is modelled at token level: a line is a sequence of tokens, a      *)
(* token being one whitespace character " ", a bullet, a colon, a word or  *)
(* a run of digits.  A group name f"{kind} {num}" is the pair <<kind,num>>.*)
(***************************************************************************)
EXTENDS Integers, Sequences, FiniteSets, TLC

VARIABLES
    pc,            \* position of the process: which call runs / how it ended
    GROUP_ORDER,   \* module-level list GROUP_ORDER (process-wide)
    hash_salt,     \* per-process string-hash randomisation (set iteration order)
    lineno,        \* parse_message: lines of the text consumed so far
    todo_section,  \* parse_message: inside the TODO: section
    current_group, \* parse_message: header of the open section, <<>> for None
    todo_any,      \* parse_message: names under TODO:
    group_lists,   \* parse_message: insertion-ordered dict group -> names
    people,        \* list of people handed to asignar
    allowed,       \* person -> set of groups
    all_groups,    \* third value returned by build_eligibilities
    ref_groups,    \* all_groups a freshly started process computes for the same text
    ref_allowed,   \* eligibility sets a freshly started process computes for the same text
    groups,        \* slot list handed to asignar / target_sizes
    n,             \* n_people
    seed,          \* seed handed to asignar
    max_intentos,  \* attempt bound handed to asignar
    rng,           \* state of random.Random(seed)
    objetivos,     \* targets
    mejor,         \* <<>> for None, else <<[asign, tam, objetivos]>>
    mejor_score,   \* <<>> for float("inf"), else <<score>>
    base_order,    \* people sorted by (flexibility, lowercase name)
    intento,       \* number of attempts started
    orden,         \* order of the current attempt
    pos,           \* next index into orden
    tam,           \* occupied count per slot in the current attempt
    asign,         \* assignment built by the current attempt
    factible,      \* feasibility flag of the current attempt
    historial,     \* record of every finished attempt, in attempt order
    result,        \* <<>> until asignar returns, then <<[asign, tam, objetivos]>>
    censo,         \* large inputs: base_order as runs of people with one eligibility set
    cola           \* large inputs: the part of orden not yet placed, as runs

vars == <<pc, GROUP_ORDER, hash_salt, lineno, todo_section, current_group, todo_any, group_lists, people, allowed,
          all_groups, ref_groups, ref_allowed, groups, n, seed, max_intentos,
          rng, objetivos, mejor, mejor_score, base_order, intento, orden, pos,
          tam, asign, factible, historial, result, censo, cola>>

parseVars == <<lineno, todo_section, current_group, todo_any, group_lists>>
eligVars == <<people, allowed, all_groups, ref_groups, ref_allowed>>
callVars == <<groups, n, seed, max_intentos, objetivos, base_order>>
loopVars == <<rng, mejor, mejor_score, intento, historial>>
attemptVars == <<orden, pos, tam, asign, factible>>
censoVars == <<censo, cola>>

(***************************************************************************)
(* Bounds of the model.                                                    *)
(***************************************************************************)
MaxLines == 4       \* lines of an input text
MaxPeople == 3      \* people of a direct call of asignar
MaxSeed == 1        \* seeds 0..MaxSeed
MaxSalt == 2        \* hash salts 1..MaxSalt
MaxIntentos == 2    \* max_intentos in 1..MaxIntentos
MaxN == 8           \* people counts handed to target_sizes alone
MaxK == 6           \* slot-list lengths handed to target_sizes alone

(***************************************************************************)
(* Generic helpers.                                                        *)
(***************************************************************************)
Range(s) == {s[i] : i \in 1..Len(s)}

RECURSIVE SumSeq(_)
SumSeq(s) == IF s = <<>> THEN 0 ELSE Head(s) + SumSeq(Tail(s))

MaxOf(S) == CHOOSE x \in S : \A y \in S : y <= x
MinOf(S) == CHOOSE x \in S : \A y \in S : x <= y
Abs(x) == IF x < 0 THEN -x ELSE x

\* index (1-based) of the first occurrence of x in s, 0 when absent
IndexOf(s, x) ==
    IF x \in Range(s) THEN MinOf({i \in 1..Len(s) : s[i] = x}) ELSE 0

(***************************************************************************)
(* Strings.                                                                *)
(***************************************************************************)
\* str.lower() on a token
Lower(t) ==
    CASE t = "TODO" -> "todo"
      [] t \in {"Comida", "COMIDA"} -> "comida"
      [] t \in {"Cena", "CENA"} -> "cena"
      [] t = "Ana" -> "ana"
      [] OTHER -> t

\* str.capitalize() on a token
Capitalize(t) ==
    CASE Lower(t) = "comida" -> "Comida"
      [] Lower(t) = "cena" -> "Cena"
      [] Lower(t) = "todo" -> "Todo"
      [] Lower(t) = "ana" -> "Ana"
      [] OTHER -> t

LowerStr(s) == [i \in 1..Len(s) |-> Lower(s[i])]

IsDigits(t) == t \in {"9", "10", "11", "12", "13"}

\* rank of a token in the string order of Python (space < "-" < digits < upper < lower < bullet)
TokRank(t) ==
    CASE t = " " -> 0
      [] t = "-" -> 1
      [] t = "10" -> 2 [] t = "11" -> 3 [] t = "12" -> 4 [] t = "13" -> 5 [] t = "9" -> 6
      [] t = ":" -> 7
      [] t = "Ana" -> 8 [] t = "CENA" -> 9 [] t = "COMIDA" -> 10 [] t = "Cena" -> 11
      [] t = "Comida" -> 12 [] t = "TODO" -> 13
      [] t = "ana" -> 20 [] t = "bea" -> 21 [] t = "cena" -> 22 [] t = "comida" -> 23
      [] t = "cy" -> 24 [] t = "dani" -> 25 [] t = "eva" -> 26 [] t = "todo" -> 27
      [] OTHER -> 40

\* a < b on strings
RECURSIVE StrLess(_, _)
StrLess(a, b) ==
    IF b = <<>> THEN FALSE
    ELSE IF a = <<>> THEN TRUE
    ELSE IF TokRank(Head(a)) # TokRank(Head(b)) THEN TokRank(Head(a)) < TokRank(Head(b))
    ELSE StrLess(Tail(a), Tail(b))

\* (flex[x], x.lower()) < (flex[y], y.lower()) : the sort keys of the code
KeyLess(x, y, flex) ==
    \/ flex[x] < flex[y]
    \/ flex[x] = flex[y] /\ StrLess(LowerStr(x), LowerStr(y))

\* stable insertion of x into the sorted sequence s: after every element not greater
RECURSIVE InsertSorted(_, _, _)
InsertSorted(s, x, flex) ==
    IF s = <<>> THEN <<x>>
    ELSE IF KeyLess(x, Head(s), flex) THEN <<x>> \o s
    ELSE <<Head(s)>> \o InsertSorted(Tail(s), x, flex)

\* sorted(s, key=lambda p: (flex[p], p.lower())) : stable sort
RECURSIVE SortedBy(_, _)
SortedBy(s, flex) ==
    IF s = <<>> THEN <<>>
    ELSE InsertSorted(SortedBy(SubSeq(s, 1, Len(s) - 1), flex), s[Len(s)], flex)

RECURSIVE LStrip(_)
LStrip(s) == IF s # <<>> /\ Head(s) = " " THEN LStrip(Tail(s)) ELSE s

RECURSIVE RStrip(_)
RStrip(s) ==
    IF s # <<>> /\ s[Len(s)] = " " THEN RStrip(SubSeq(s, 1, Len(s) - 1)) ELSE s

\* re.sub(r"\s+", " ", s)
RECURSIVE CollapseWs(_)
CollapseWs(s) ==
    IF Len(s) < 2 THEN s
    ELSE IF s[1] = " " /\ s[2] = " " THEN CollapseWs(Tail(s))
    ELSE <<s[1]>> \o CollapseWs(Tail(s))

normalize_name(s) == CollapseWs(RStrip(LStrip(s)))

NoWs(s) == SelectSeq(s, LAMBDA t : t # " ")

\* re.match(r"^\s*TODO\s*:\s*$", line, IGNORECASE)
IsTodoLine(line) ==
    LET w == NoWs(line) IN Len(w) = 2 /\ Lower(w[1]) = "todo" /\ w[2] = ":"

\* HEADER_RE = ^\s*-\s*(Comida|Cena)\s+(\d+)\s*$ , IGNORECASE
HeaderMatch(line) ==
    LET s == normalize_name(line)
        w == NoWs(line)
    IN  /\ Len(w) = 3
        /\ w[1] = "-"
        /\ Lower(w[2]) \in {"comida", "cena"}
        /\ IsDigits(w[3])
        /\ s \in {<<"-", " ", w[2], " ", w[3]>>, <<"-", w[2], " ", w[3]>>}

\* f"{kind} {num}" with kind = m.group(1).capitalize()
HeaderGroup(line) == LET w == NoWs(line) IN <<Capitalize(w[2]), w[3]>>

\* g.lower().startswith("cena")
IsDinner(g) == Lower(g[1]) = "cena"

CanonicalOrder ==
    << <<"Comida", "9">>, <<"Cena", "9">>, <<"Comida", "10">>,
       <<"Cena", "10">>, <<"Comida", "11">>, <<"Comida", "12">> >>

(***************************************************************************)
(* parse_message.  The parser state is the locals of the loop plus the     *)
(* module-level GROUP_ORDER it appends to.  group_lists is a               *)
(* defaultdict(list): a sequence of [g, names] in key insertion order.     *)
(***************************************************************************)
DictHas(d, g) == \E i \in 1..Len(d) : d[i].g = g

\* group_lists[g].append(name)
DictAppend(d, g, name) ==
    IF DictHas(d, g)
    THEN [i \in 1..Len(d) |->
            IF d[i].g = g THEN [d[i] EXCEPT !.names = Append(@, name)] ELSE d[i]]
    ELSE Append(d, [g |-> g, names |-> <<name>>])

\* one iteration of "for raw in lines"
ParseLine(st, raw) ==
    LET line == RStrip(raw)
        name == normalize_name(line)
    IN  IF LStrip(line) = <<>> THEN st
        ELSE IF IsTodoLine(line)
        THEN [st EXCEPT !.todo_section = TRUE, !.current_group = <<>>]
        ELSE IF HeaderMatch(line)
        THEN LET g == HeaderGroup(line)
             IN  [st EXCEPT !.current_group = g,
                            !.todo_section = FALSE,
                            !.order = IF g \in Range(@) THEN @ ELSE Append(@, g)]
        ELSE IF name \in {<<"-">>, <<"*">>} THEN st   \* "*" stands for the bullet U+2022
        ELSE IF st.todo_section
        THEN [st EXCEPT !.todo_any = Append(@, name)]
        ELSE IF st.current_group # <<>>
        THEN [st EXCEPT !.group_lists = DictAppend(@, st.current_group, name)]
        ELSE st

(***************************************************************************)
(* build_eligibilities.  person_allowed is a defaultdict(set); its keys in *)
(* insertion order are the TODO names, then the names of each header.      *)
(***************************************************************************)
RECURSIVE Dedup(_)
Dedup(s) ==
    IF s = <<>> THEN <<>>
    ELSE LET d == Dedup(SubSeq(s, 1, Len(s) - 1))
         IN  IF s[Len(s)] \in Range(d) THEN d ELSE Append(d, s[Len(s)])

RECURSIVE DictNames(_)
DictNames(d) == IF d = <<>> THEN <<>> ELSE Head(d).names \o DictNames(Tail(d))

\* person_allowed.keys(), in insertion order
AllowedKeys(ta, gl) == Dedup(ta \o DictNames(gl))

\* faulty variant: person_allowed[p] = {g} instead of .add(g): the last header wins
PersonAllowed_last(p, ta, gl, order) ==
    LET hs == {j \in 1..Len(gl) : p \in Range(gl[j].names)}
    IN  IF hs # {} THEN {gl[MaxOf(hs)].g}
        ELSE IF p \in Range(ta) THEN Range(order) ELSE {}

\* person_allowed[p] after both loops
PersonAllowed(p, ta, gl, order) ==
    (IF p \in Range(ta) THEN Range(order) ELSE {})
        \cup {gl[i].g : i \in {j \in 1..Len(gl) : p \in Range(gl[j].names)}}

build_eligibilities(ta, gl, order) ==
    LET keys == AllowedKeys(ta, gl)
    IN  [people |-> SortedBy(keys, [p \in Range(keys) |-> 0]),
         allowed |-> [p \in Range(keys) |-> PersonAllowed(p, ta, gl, order)],
         all_groups |-> order]

(***************************************************************************)
(* target_sizes.                                                           *)
(***************************************************************************)
\* [i for i, g in enumerate(groups) if pred], as a sequence of 1-based indices
RECURSIVE IdxWhere(_, _, _)
IdxWhere(gs, i, dinner) ==
    IF i > Len(gs) THEN <<>>
    ELSE (IF IsDinner(gs[i]) = dinner THEN <<i>> ELSE <<>>) \o IdxWhere(gs, i + 1, dinner)

dinner_idx(gs) == IdxWhere(gs, 1, TRUE)
lunch_idx(gs) == IdxWhere(gs, 1, FALSE)

\* faulty variants of the two loops: a loop that hands out nothing
LunchUnits_none(rem, gs) == 0
DinnerUnits_none(rem, gs) == 0

\* number of +1 units the first loop hands out, then the second
LunchUnits(rem, gs) == IF rem < Len(lunch_idx(gs)) THEN rem ELSE Len(lunch_idx(gs))
DinnerUnits(rem, gs) ==
    LET left == rem - LunchUnits(rem, gs)
    IN  IF left < Len(dinner_idx(gs)) THEN left ELSE Len(dinner_idx(gs))

target_sizes(n_people, gs) ==
    LET k == Len(gs)
        base == n_people \div k
        rem == n_people % k
        li == lunch_idx(gs)
        di == dinner_idx(gs)
    IN  [i \in 1..k |->
            base + (IF \/ \E j \in 1..LunchUnits(rem, gs) : li[j] = i
                       \/ \E j \in 1..DinnerUnits(rem, gs) : di[j] = i
                    THEN 1 ELSE 0)]

(***************************************************************************)
(* random.Random(seed): a deterministic generator, a function of the seed. *)
(* The library generator is modelled by a full-period congruential         *)
(* generator on 64 states; every draw advances it once.                    *)
(***************************************************************************)
RngSeed(s) == (21 * s + 7) % 64
RngNext(r) == (5 * r + 3) % 64
RandBelow(r, m) == (r \div 4) % m

\* rng.shuffle(x): for i in reversed(range(1, len(x))): j = randbelow(i+1); swap
RECURSIVE ShuffleFrom(_, _, _)
ShuffleFrom(x, i, r) ==
    IF i < 2 THEN [list |-> x, rng |-> r]
    ELSE LET j == RandBelow(r, i) + 1
         IN  ShuffleFrom([x EXCEPT ![i] = x[j], ![j] = x[i]], i - 1, RngNext(r))

Shuffle(x, r) == ShuffleFrom(x, Len(x), r)

(***************************************************************************)
(* Iteration order of a set of strings: the order of the salted hashes.    *)
(***************************************************************************)
GroupUniverse == CanonicalOrder \o << <<"Comida", "13">> >>

\* a multiplicative hash of the name, salted per process
HashOf(g, salt) == ((3 * salt + 4) * IndexOf(GroupUniverse, g)) % 11

\* list(S) for a set S of group names
RECURSIVE ListOfSet(_, _)
ListOfSet(S, salt) ==
    IF S = {} THEN <<>>
    ELSE LET g == CHOOSE x \in S : \A y \in S : HashOf(x, salt) <= HashOf(y, salt)
         IN  <<g>> \o ListOfSet(S \ {g}, salt)

(***************************************************************************)
(* asignar: the order of one attempt.                                      *)
(***************************************************************************)
Flex(al) == [p \in DOMAIN al |-> Cardinality(al[p])]

\* base_order = sorted(people, key=lambda p: (len(allowed[p]), p.lower()))
BaseOrder(ps, al) == SortedBy(ps, Flex(al))

\* for k in sorted(buckets.keys()): bloque = buckets[k][:]; shuffle; extend
RECURSIVE BuildOrden(_, _, _, _, _)
BuildOrden(bo, al, k, acc, r) ==
    IF k > Cardinality(Range(GroupUniverse)) THEN [list |-> acc, rng |-> r]
    ELSE LET bloque == SelectSeq(bo, LAMBDA p : Cardinality(al[p]) = k)
             sh == Shuffle(bloque, r)
         IN  BuildOrden(bo, al, k + 1, acc \o sh.list, sh.rng)

(***************************************************************************)
(* asignar: one placement (the body of "for p in orden").                  *)
(***************************************************************************)
under(opciones, gs, t, obj) ==
    SelectSeq(opciones, LAMBDA g : t[IndexOf(gs, g)] < obj[IndexOf(gs, g)])

\* faulty variant: once every eligible slot met its target, overflow into any slot of the list
candidatos_any(opciones, gs, t, obj) ==
    IF under(opciones, gs, t, obj) # <<>> THEN under(opciones, gs, t, obj) ELSE gs

\* faulty variant: the slots below their target get no precedence
candidatos_opciones(opciones, gs, t, obj) == opciones

candidatos(opciones, gs, t, obj) ==
    IF under(opciones, gs, t, obj) # <<>> THEN under(opciones, gs, t, obj) ELSE opciones

min_size(cands, gs, t) == MinOf({t[IndexOf(gs, g)] : g \in Range(cands)})

\* faulty variant: no lunch preference among the least occupied candidates
mejores_sin_preferencia(opciones, gs, t, obj) ==
    LET cands == candidatos(opciones, gs, t, obj)
    IN  SelectSeq(cands, LAMBDA g : t[IndexOf(gs, g)] = min_size(cands, gs, t))

\* mejores after the lunch preference
mejores(opciones, gs, t, obj) ==
    LET cands == candidatos(opciones, gs, t, obj)
        best == SelectSeq(cands, LAMBDA g : t[IndexOf(gs, g)] = min_size(cands, gs, t))
        lunch_best == SelectSeq(best, LAMBDA g : ~IsDinner(g))
    IN  IF lunch_best # <<>> THEN lunch_best ELSE best

\* the step on person p: "infeasible" (break), "keyerror" (idx[g] of a slot that is
\* not in groups), or "ok" with the new tam, asign and generator state
PlaceStep(p, al, gs, obj, salt, t, a, r) ==
    LET opciones == ListOfSet(al[p], salt)
    IN  IF opciones = <<>>
        THEN [kind |-> "infeasible", tam |-> t, asign |-> a, rng |-> r]
        ELSE IF \E g \in Range(opciones) : g \notin Range(gs)
        THEN [kind |-> "keyerror", tam |-> t, asign |-> a, rng |-> r]
        ELSE LET m == mejores(opciones, gs, t, obj)
                 elegido == m[RandBelow(r, Len(m)) + 1]
             IN  [kind |-> "ok",
                  tam |-> [t EXCEPT ![IndexOf(gs, elegido)] = @ + 1],
                  asign |-> (p :> elegido) @@ a,
                  rng |-> RngNext(r)]

(***************************************************************************)
(* asignar: scoring.                                                       *)
(***************************************************************************)
Dev(t, obj) == SumSeq([i \in 1..Len(t) |-> Abs(t[i] - obj[i])])
Spread(t) == MaxOf(Range(t)) - MinOf(Range(t))
Score(t, obj) == Dev(t, obj) * 10 + Spread(t)

\* faulty variants: the comparison turned around; the comparison made non-strict
Improves_gt(score, ms) == ms # <<>> /\ score > ms[1]
Improves_le(score, ms) == ms = <<>> \/ score <= ms[1]

\* score < mejor_score, mejor_score being float("inf") when <<>>
Improves(score, ms) == ms = <<>> \/ score < ms[1]

\* dev == 0 and spread <= 1
EarlyExit(t, obj) == Dev(t, obj) = 0 /\ Spread(t) <= 1

Zeros(gs) == [i \in 1..Len(gs) |-> 0]
EmptyAsign == [p \in {} |-> <<>>]

(***************************************************************************)
(* asignar as a function of its inputs and of the process's hash salt:     *)
(* the same steps as the actions below, run to the end.                    *)
(***************************************************************************)
RECURSIVE RunAttempt(_, _, _, _, _, _, _, _, _)
RunAttempt(ord, i, al, gs, obj, salt, t, a, r) ==
    IF i > Len(ord) THEN [kind |-> "ok", tam |-> t, asign |-> a, rng |-> r]
    ELSE LET s == PlaceStep(ord[i], al, gs, obj, salt, t, a, r)
         IN  IF s.kind # "ok" THEN s
             ELSE RunAttempt(ord, i + 1, al, gs, obj, salt, s.tam, s.asign, s.rng)

RECURSIVE AsignarLoop(_, _, _, _, _, _, _, _, _, _)
AsignarLoop(i, r, mj, ms, bo, al, gs, obj, salt, mx) ==
    IF i >= mx
    THEN IF mj = <<>> THEN [kind |-> "raised", value |-> <<>>]
         ELSE [kind |-> "returned", value |-> mj]
    ELSE LET o == BuildOrden(bo, al, 0, <<>>, r)
             at == RunAttempt(o.list, 1, al, gs, obj, salt, Zeros(gs), EmptyAsign, o.rng)
             cur == <<[asign |-> at.asign, tam |-> at.tam, objetivos |-> obj]>>
             better == Improves(Score(at.tam, obj), ms)
         IN  IF at.kind = "keyerror" THEN [kind |-> "keyerror", value |-> <<>>]
             ELSE IF at.kind = "infeasible"
             THEN AsignarLoop(i + 1, at.rng, mj, ms, bo, al, gs, obj, salt, mx)
             ELSE IF EarlyExit(at.tam, obj) THEN [kind |-> "returned", value |-> cur]
             ELSE AsignarLoop(i + 1, at.rng,
                              IF better THEN cur ELSE mj,
                              IF better THEN <<Score(at.tam, obj)>> ELSE ms,
                              bo, al, gs, obj, salt, mx)

AsignarFn(ps, al, gs, sd, mx, salt) ==
    AsignarLoop(0, RngSeed(sd), <<>>, <<>>, BaseOrder(ps, al), al, gs,
                target_sizes(Len(ps), gs), salt, mx)

(***************************************************************************)
(* Inputs.                                                                 *)
(***************************************************************************)
\* the lines a text is made of
LineSample ==
    { <<" ">>,
      <<"todo", " ", ":">>,
      <<"-", " ", "Comida", " ", "9">>,
      <<"-", "cena", " ", " ", "9">>,
      <<"-", " ", "Comida", " ", "13">>,
      <<"-", " ", "ana">>,
      <<" ", "-", " ", " ", "ana", " ">>,
      <<"-", " ", "bea">>,
      <<"-">> }

Seeds == 0..MaxSeed
HashSalts == 1..MaxSalt
Intentos == 1..MaxIntentos

\* people of a direct call
NameSample == << <<"-", " ", "ana">>, <<"-", " ", "bea">>, <<"-", " ", "cy">>,
                 <<"-", " ", "dani">>, <<"-", " ", "eva">> >>

PeopleLists == {SubSeq(NameSample, 1, k) : k \in 0..MaxPeople}

\* eligibility sets of a direct call
EligSample ==
    { {},
      {CanonicalOrder[1]},
      {CanonicalOrder[1], CanonicalOrder[2]},
      {CanonicalOrder[1], CanonicalOrder[3]},
      Range(CanonicalOrder) }

\* slot lists handed to target_sizes alone
DayTokens == <<"9", "10", "11", "12", "13", "14", "15", "16">>
KindSample == {"Comida", "Cena", "cena"}
SlotLists ==
    {[i \in 1..Len(kinds) |-> <<kinds[i], DayTokens[i]>>] :
        kinds \in UNION {[1..k -> KindSample] : k \in 1..MaxK}}

(***************************************************************************)
(* Actions.                                                                *)
(***************************************************************************)
\* the locals of a call that has not happened yet
Blank ==
    /\ lineno = 0 /\ todo_section = FALSE /\ current_group = <<>>
    /\ todo_any = <<>> /\ group_lists = <<>>
    /\ people = <<>> /\ allowed = EmptyAsign /\ all_groups = <<>>
    /\ ref_allowed = EmptyAsign
    /\ groups = <<>> /\ n = 0 /\ seed = 0 /\ max_intentos = 0
    /\ rng = 0 /\ objetivos = <<>> /\ mejor = <<>> /\ mejor_score = <<>>
    /\ base_order = <<>> /\ intento = 0 /\ orden = <<>> /\ pos = 1
    /\ tam = <<>> /\ asign = EmptyAsign /\ factible = TRUE
    /\ historial = <<>> /\ result = <<>>
    /\ censo = <<>> /\ cola = <<>>

\* parse_message: one iteration of "for raw in lines" on the next line of the text
ParseLineStep ==
    /\ pc = "parsing"
    /\ lineno < MaxLines
    /\ \E raw \in LineSample :
        LET st == ParseLine([todo_section |-> todo_section, current_group |-> current_group,
                             todo_any |-> todo_any, group_lists |-> group_lists,
                             order |-> GROUP_ORDER], raw)
        IN  /\ todo_section' = st.todo_section
            /\ current_group' = st.current_group
            /\ todo_any' = st.todo_any
            /\ group_lists' = st.group_lists
            /\ GROUP_ORDER' = st.order
            /\ ref_groups' = ParseLine([todo_section |-> todo_section,
                                        current_group |-> current_group,
                                        todo_any |-> todo_any, group_lists |-> group_lists,
                                        order |-> ref_groups], raw).order
    /\ lineno' = lineno + 1
    /\ UNCHANGED <<censoVars, pc, hash_salt, people, allowed, all_groups, ref_allowed, callVars,
                   loopVars, attemptVars, result>>

\* main: parse_message returns at the end of the text;
\* personas, allowed, _ = build_eligibilities(todo_any, group_lists)
BuildEligibilities ==
    /\ pc = "parsing"
    /\ LET b == build_eligibilities(todo_any, group_lists, GROUP_ORDER)
       IN  /\ people' = b.people
           /\ allowed' = b.allowed
           /\ all_groups' = b.all_groups
    /\ ref_allowed' = build_eligibilities(todo_any, group_lists, ref_groups).allowed
    /\ pc' = "built"
    /\ UNCHANGED <<censoVars, GROUP_ORDER, hash_salt, parseVars, ref_groups, callVars, loopVars,
                   attemptVars, result>>

\* asignar, up to the loop: generator, targets, best-so-far, base order
AsignarEntry(gs, sd, mx) ==
    /\ groups' = gs
    /\ seed' = sd
    /\ max_intentos' = mx
    /\ rng' = RngSeed(sd)
    /\ n' = Len(people)
    /\ objetivos' = target_sizes(Len(people), gs)
    /\ mejor' = <<>>
    /\ mejor_score' = <<>>
    /\ base_order' = BaseOrder(people, allowed)
    /\ intento' = 0
    /\ historial' = <<>>
    /\ pc' = "loop"

\* main: the slot list, the two validations, the seed and the call of asignar
Main ==
    /\ pc = "built"
    /\ IF people = <<>> \/ \E i \in 1..Len(people) : allowed[people[i]] = {}
       THEN /\ pc' = "exit"
            /\ UNCHANGED <<callVars, loopVars>>
       ELSE \E sd \in Seeds, mx \in Intentos :
                AsignarEntry(SubSeq(GROUP_ORDER, 1, 6), sd, mx)
    /\ UNCHANGED <<censoVars, GROUP_ORDER, hash_salt, parseVars, eligVars, attemptVars, result>>

\* a direct call asignar(people, allowed, groups, seed, max_intentos)
CallAsignar ==
    /\ pc = "call"
    /\ AsignarEntry(groups, seed, max_intentos)
    /\ UNCHANGED <<censoVars, GROUP_ORDER, hash_salt, parseVars, eligVars, attemptVars, result>>

\* the head of one iteration of "for _ in range(max_intentos)": buckets, shuffles
BeginAttempt ==
    /\ pc = "loop"
    /\ intento < max_intentos
    /\ LET o == BuildOrden(base_order, allowed, 0, <<>>, rng)
       IN  /\ orden' = o.list
           /\ rng' = o.rng
    /\ intento' = intento + 1
    /\ tam' = Zeros(groups)
    /\ asign' = EmptyAsign
    /\ factible' = TRUE
    /\ pos' = 1
    /\ pc' = "place"
    /\ UNCHANGED <<censoVars, GROUP_ORDER, hash_salt, parseVars, eligVars, callVars, mejor,
                   mejor_score, historial, result>>

\* one iteration of "for p in orden"
Place ==
    /\ pc = "place"
    /\ factible
    /\ pos <= Len(orden)
    /\ LET s == PlaceStep(orden[pos], allowed, groups, objetivos, hash_salt, tam, asign, rng)
       IN  /\ tam' = s.tam
           /\ asign' = s.asign
           /\ rng' = s.rng
           /\ factible' = (s.kind # "infeasible")
           /\ pos' = IF s.kind = "ok" THEN pos + 1 ELSE pos
           /\ pc' = IF s.kind = "keyerror" THEN "keyerror" ELSE "place"
    /\ UNCHANGED <<censoVars, GROUP_ORDER, hash_salt, parseVars, eligVars, callVars, mejor,
                   mejor_score, intento, orden, historial, result>>

\* the tail of one iteration: "if factible:" scoring, best-so-far, early return
EndAttempt ==
    /\ pc = "place"
    /\ ~factible \/ pos > Len(orden)
    /\ LET cur == <<[asign |-> asign, tam |-> tam, objetivos |-> objetivos]>>
           score == Score(tam, objetivos)
           better == factible /\ Improves(score, mejor_score)
       IN  /\ mejor' = IF better THEN cur ELSE mejor
           /\ mejor_score' = IF better THEN <<score>> ELSE mejor_score
           /\ historial' = Append(historial,
                  [factible |-> factible, score |-> score, asign |-> asign, tam |-> tam])
           /\ IF factible /\ EarlyExit(tam, objetivos)
              THEN pc' = "returned" /\ result' = cur
              ELSE pc' = "loop" /\ result' = result
    /\ UNCHANGED <<censoVars, GROUP_ORDER, hash_salt, parseVars, eligVars, callVars, rng, intento,
                   attemptVars>>

\* after the loop: "if not mejor: raise RuntimeError(...)"; "return mejor"
FinLoop ==
    /\ pc = "loop"
    /\ intento >= max_intentos
    /\ IF mejor = <<>>
       THEN pc' = "raised" /\ result' = result
       ELSE pc' = "returned" /\ result' = mejor
    /\ UNCHANGED <<censoVars, GROUP_ORDER, hash_salt, parseVars, eligVars, callVars, loopVars,
                   attemptVars>>

\* the process takes the next text: every local of the finished run is gone,
\* the module-level GROUP_ORDER stays
NextRun ==
    /\ pc \in {"returned", "raised", "keyerror", "exit"}
    /\ pc' = "parsing"
    /\ lineno' = 0 /\ todo_section' = FALSE /\ current_group' = <<>>
    /\ todo_any' = <<>> /\ group_lists' = <<>>
    /\ people' = <<>> /\ allowed' = EmptyAsign /\ all_groups' = <<>>
    /\ ref_groups' = CanonicalOrder /\ ref_allowed' = EmptyAsign
    /\ groups' = <<>> /\ n' = 0 /\ seed' = 0 /\ max_intentos' = 0
    /\ rng' = 0 /\ objetivos' = <<>> /\ mejor' = <<>> /\ mejor_score' = <<>>
    /\ base_order' = <<>> /\ intento' = 0 /\ orden' = <<>> /\ pos' = 1
    /\ tam' = <<>> /\ asign' = EmptyAsign /\ factible' = TRUE
    /\ historial' = <<>> /\ result' = <<>>
    /\ UNCHANGED <<censoVars, GROUP_ORDER, hash_salt>>

\* target_sizes(n_people, groups) called alone
ComputeTargets ==
    /\ pc = "targets"
    /\ objetivos' = target_sizes(n, groups)
    /\ pc' = "targets_done"
    /\ UNCHANGED <<censoVars, GROUP_ORDER, hash_salt, parseVars, eligVars, groups, n, seed,
                   max_intentos, base_order, loopVars, attemptVars, result>>

(***************************************************************************)
(* Specifications.                                                         *)
(***************************************************************************)
\* a process that takes texts one after the other (parse, build, main, asignar)
Init ==
    /\ pc = "parsing"
    /\ GROUP_ORDER = CanonicalOrder
    /\ ref_groups = CanonicalOrder
    /\ hash_salt \in HashSalts
    /\ Blank

Engine == BeginAttempt \/ Place \/ EndAttempt \/ FinLoop

Next == ParseLineStep \/ BuildEligibilities \/ Main \/ Engine \/ NextRun

Spec == Init /\ [][Next]_vars

\* asignar called on drawn inputs over the six canonical slots
InitEngine ==
    /\ pc = "call"
    /\ GROUP_ORDER = CanonicalOrder
    /\ hash_salt \in HashSalts
    /\ lineno = 0 /\ todo_section = FALSE /\ current_group = <<>>
    /\ todo_any = <<>> /\ group_lists = <<>>
    /\ people \in PeopleLists
    /\ allowed \in [Range(people) -> EligSample]
    /\ all_groups = <<>> /\ ref_groups = <<>> /\ ref_allowed = EmptyAsign
    /\ groups = CanonicalOrder
    /\ seed \in Seeds
    /\ max_intentos \in Intentos
    /\ n = 0 /\ rng = 0 /\ objetivos = <<>> /\ mejor = <<>> /\ mejor_score = <<>>
    /\ base_order = <<>> /\ intento = 0 /\ orden = <<>> /\ pos = 1
    /\ tam = <<>> /\ asign = EmptyAsign /\ factible = TRUE
    /\ historial = <<>> /\ result = <<>>
    /\ censo = <<>> /\ cola = <<>>

NextEngine == CallAsignar \/ Engine

SpecEngine == InitEngine /\ [][NextEngine]_vars

\* target_sizes on drawn inputs
InitTargets ==
    /\ pc = "targets"
    /\ GROUP_ORDER = CanonicalOrder
    /\ hash_salt = 1
    /\ lineno = 0 /\ todo_section = FALSE /\ current_group = <<>>
    /\ todo_any = <<>> /\ group_lists = <<>>
    /\ people = <<>> /\ allowed = EmptyAsign
    /\ all_groups = <<>> /\ ref_groups = <<>> /\ ref_allowed = EmptyAsign
    /\ groups \in SlotLists
    /\ n \in 0..MaxN
    /\ seed = 0 /\ max_intentos = 0
    /\ rng = 0 /\ objetivos = <<>> /\ mejor = <<>> /\ mejor_score = <<>>
    /\ base_order = <<>> /\ intento = 0 /\ orden = <<>> /\ pos = 1
    /\ tam = <<>> /\ asign = EmptyAsign /\ factible = TRUE
    /\ historial = <<>> /\ result = <<>>
    /\ censo = <<>> /\ cola = <<>>

NextTargets == ComputeTargets

SpecTargets == InitTargets /\ [][NextTargets]_vars

(***************************************************************************)
(* asignar on large inputs.  People who share an eligibility set are kept  *)
(* as runs: base_order is a sequence of runs [elig, cuantos], the names of *)
(* the input being such that the people of one eligibility set are         *)
(* adjacent in the sort.  Only the sizes are followed, not who sits where. *)
(* rng.shuffle returns one of two permutations of each bloque (the bloque  *)
(* as built, or reversed); rng.choice returns any element of mejores.      *)
(***************************************************************************)
MaxEscala == 4

Run(S, c) == [elig |-> S, cuantos |-> c]

\* a text of 76 * e + 1 names, in base order: people of one lunch only, then
\* people of two lunches
CensoDe(e) ==
    << Run({CanonicalOrder[1]}, 11 * e),
       Run({CanonicalOrder[3]}, 20 * e),
       Run({CanonicalOrder[5], CanonicalOrder[6]}, 1),
       Run({CanonicalOrder[3], CanonicalOrder[5]}, 30 * e),
       Run({CanonicalOrder[1], CanonicalOrder[5]}, 15 * e) >>

CensoSample == {CensoDe(e) : e \in 1..MaxEscala}

\* len(people)
CensoTotal(cs) == SumSeq([i \in 1..Len(cs) |-> cs[i].cuantos])

Reverse(s) == [i \in 1..Len(s) |-> s[Len(s) + 1 - i]]

\* buckets[k]
Bloque(cs, k) == SelectSeq(cs, LAMBDA r : Cardinality(r.elig) = k)

\* the values orden can take: every bloque as built or reversed, in the order of k
RECURSIVE Ordenes(_, _)
Ordenes(cs, k) ==
    IF k > Cardinality(Range(GroupUniverse)) THEN {<<>>}
    ELSE {b \o rest : b \in {Bloque(cs, k), Reverse(Bloque(cs, k))},
                      rest \in Ordenes(cs, k + 1)}

\* asignar, up to the loop
CallCenso ==
    /\ pc = "call"
    /\ n' = CensoTotal(censo)
    /\ objetivos' = target_sizes(CensoTotal(censo), groups)
    /\ mejor' = <<>>
    /\ mejor_score' = <<>>
    /\ intento' = 0
    /\ historial' = <<>>
    /\ pc' = "loop"
    /\ UNCHANGED <<censoVars, GROUP_ORDER, hash_salt, parseVars, eligVars, groups, seed,
                   max_intentos, base_order, rng, attemptVars, result>>

\* the head of one iteration of "for _ in range(max_intentos)"
BeginAttemptCenso ==
    /\ pc = "loop"
    /\ intento < max_intentos
    /\ cola' \in Ordenes(censo, 0)
    /\ intento' = intento + 1
    /\ tam' = Zeros(groups)
    /\ factible' = TRUE
    /\ pc' = "place"
    /\ UNCHANGED <<censo, GROUP_ORDER, hash_salt, parseVars, eligVars, callVars, rng,
                   mejor, mejor_score, historial, orden, pos, asign, result>>

\* one iteration of "for p in orden", p being the next person of the first run
PlaceCenso ==
    /\ pc = "place"
    /\ cola # <<>>
    /\ cola[1].elig # {} /\ cola[1].elig \subseteq Range(groups)
    /\ LET opciones == ListOfSet(cola[1].elig, hash_salt)
       IN  \E elegido \in Range(mejores(opciones, groups, tam, objetivos)) :
               tam' = [tam EXCEPT ![IndexOf(groups, elegido)] = @ + 1]
    /\ cola' = IF cola[1].cuantos = 1 THEN Tail(cola)
               ELSE [cola EXCEPT ![1].cuantos = @ - 1]
    /\ UNCHANGED <<censo, pc, GROUP_ORDER, hash_salt, parseVars, eligVars, callVars,
                   loopVars, orden, pos, asign, factible, result>>

\* the tail of one iteration: scoring, best-so-far, early return
EndAttemptCenso ==
    /\ pc = "place"
    /\ cola = <<>>
    /\ LET cur == <<[asign |-> asign, tam |-> tam, objetivos |-> objetivos]>>
           score == Score(tam, objetivos)
           better == Improves(score, mejor_score)
       IN  /\ mejor' = IF better THEN cur ELSE mejor
           /\ mejor_score' = IF better THEN <<score>> ELSE mejor_score
           /\ historial' = Append(historial,
                  [factible |-> TRUE, score |-> score, asign |-> asign, tam |-> tam])
           /\ IF EarlyExit(tam, objetivos)
              THEN pc' = "returned" /\ result' = cur
              ELSE pc' = "loop" /\ result' = result
    /\ UNCHANGED <<censoVars, GROUP_ORDER, hash_salt, parseVars, eligVars, callVars, rng,
                   intento, attemptVars>>

InitCenso ==
    /\ pc = "call"
    /\ GROUP_ORDER = CanonicalOrder
    /\ hash_salt = 1
    /\ lineno = 0 /\ todo_section = FALSE /\ current_group = <<>>
    /\ todo_any = <<>> /\ group_lists = <<>>
    /\ people = <<>> /\ allowed = EmptyAsign
    /\ all_groups = <<>> /\ ref_groups = <<>> /\ ref_allowed = EmptyAsign
    /\ groups = CanonicalOrder
    /\ seed = 0
    /\ max_intentos \in Intentos
    /\ censo \in CensoSample
    /\ cola = <<>>
    /\ n = 0 /\ rng = 0 /\ objetivos = <<>> /\ mejor = <<>> /\ mejor_score = <<>>
    /\ base_order = <<>> /\ intento = 0 /\ orden = <<>> /\ pos = 1
    /\ tam = <<>> /\ asign = EmptyAsign /\ factible = TRUE
    /\ historial = <<>> /\ result = <<>>

NextCenso == CallCenso \/ BeginAttemptCenso \/ PlaceCenso \/ EndAttemptCenso \/ FinLoop

SpecCenso == InitCenso /\ [][NextCenso]_vars

(***************************************************************************)
(* Properties.                                                             *)
(***************************************************************************)
Terminal == {"returned", "raised", "keyerror"}

\* the call of asignar has started (its inputs and targets are in place)
InAsignar == pc \in {"loop", "place"} \cup Terminal

\* C1: whenever asignar returns a result, the returned assignment maps every person
\* of the people list to exactly one slot, and that slot is in the person's
\* eligibility set.
C1_AssignmentTotalEligible ==
    pc = "returned" =>
        LET a == result[1].asign
        IN  /\ DOMAIN a = Range(people)
            /\ \A p \in Range(people) : a[p] \in allowed[p]

\* a returned assignment of several people, one of them with a real choice of slots,
\* produced after an overflow (some slot above its target)
C1_Witness ==
    /\ pc = "returned"
    /\ Len(people) >= 2
    /\ \E p \in Range(people) : Cardinality(allowed[p]) = 2
    /\ \E i \in 1..Len(groups) : result[1].tam[i] > objetivos[i]

\* C2: target_sizes(n, groups) returns one non-negative integer per slot, and they
\* sum to n.
C2_TargetSum ==
    pc = "targets_done" =>
        /\ Len(objetivos) = Len(groups)
        /\ \A i \in 1..Len(objetivos) : objetivos[i] \in Nat
        /\ SumSeq(objetivos) = n

\* a remainder larger than the number of lunch slots: the second loop hands out units
C2_Witness ==
    /\ pc = "targets_done"
    /\ Len(groups) = 6
    /\ n % Len(groups) > Cardinality({i \in 1..Len(groups) : Lower(groups[i][1]) # "cena"})
    /\ n > Len(groups)

\* C3: no dinner target exceeds a lunch target by more than 1; a dinner slot is at
\* base+1 only if every lunch slot is at base+1; within each category the +1 units
\* go to the slots in slot order (an earlier slot of the category never has less
\* than a later one); every target is base or base+1.
C3_DinnerMinimization ==
    pc = "targets_done" =>
        LET k == Len(groups)
            base == n \div k
            D == {i \in 1..k : Lower(groups[i][1]) = "cena"}
            L == (1..k) \ D
        IN  /\ \A i \in 1..k : objetivos[i] \in {base, base + 1}
            /\ \A d \in D, l \in L : objetivos[d] <= objetivos[l] + 1
            /\ \A d \in D : objetivos[d] = base + 1 => \A l \in L : objetivos[l] = base + 1
            /\ \A i, j \in D : i < j => objetivos[i] >= objetivos[j]
            /\ \A i, j \in L : i < j => objetivos[i] >= objetivos[j]

\* lunches and dinners both present, the lunches only partly served: the first lunch
\* slot has the unit, a later lunch slot and every dinner slot are at base
C3_Witness ==
    /\ pc = "targets_done"
    /\ \E i, j \in 1..Len(groups) :
        /\ i < j
        /\ Lower(groups[i][1]) # "cena" /\ Lower(groups[j][1]) # "cena"
        /\ objetivos[i] = objetivos[j] + 1
    /\ \E d \in 1..Len(groups) : groups[d][1] = "cena" /\ objetivos[d] = n \div Len(groups)

\* C4: a run of asignar ends the same way, with the same Assignment, RealizedSizes
\* and TargetSizes, as any run on the same people, eligibility sets, slot list,
\* max_intentos and seed, whatever the order in which the eligibility sets are
\* enumerated (here: under every hash salt).
C4_Determinism ==
    pc \in Terminal =>
        \A s \in HashSalts :
            AsignarFn(people, allowed, groups, seed, max_intentos, s)
                = [kind |-> pc, value |-> result]

\* some slot of the list has a nonzero target and no eligible person, while every
\* person has a non-empty eligibility set
EmptySlotForced ==
    /\ InAsignar
    /\ \A p \in Range(people) : allowed[p] # {}
    /\ \E i \in 1..Len(groups) :
        /\ objetivos[i] > 0
        /\ \A p \in Range(people) : groups[i] \notin allowed[p]

\* C5 as stated: on such an input asignar ends by raising the infeasibility error,
\* after max_intentos attempts none of which was feasible.
C5_RaisesInfeasible ==
    (EmptySlotForced /\ pc \in Terminal) =>
        /\ pc = "raised"
        /\ intento = max_intentos
        /\ \A i \in 1..Len(historial) : ~historial[i].factible

\* C5 amended: on such an input, with max_intentos >= 1, asignar never raises the
\* infeasibility error: every attempt that completes is feasible and has a nonzero
\* deviation (the slot nobody is eligible for stays empty, below its target), so no
\* attempt exits early; when asignar returns it has run all max_intentos attempts
\* and the returned sizes leave that slot empty.
C5_ReturnsBestWithDeviation ==
    (EmptySlotForced /\ max_intentos >= 1) =>
        /\ pc # "raised"
        /\ \A i \in 1..Len(historial) :
            historial[i].factible /\ Dev(historial[i].tam, objetivos) > 0
        /\ pc = "returned" =>
            /\ intento = max_intentos
            /\ Len(historial) = max_intentos
            /\ Dev(result[1].tam, objetivos) > 0
            /\ \A i \in 1..Len(groups) :
                (\A p \in Range(people) : groups[i] \notin allowed[p])
                    => result[1].tam[i] = 0

\* asignar has returned on an input with a forced empty slot, after two attempts
C5_Witness ==
    /\ EmptySlotForced
    /\ pc = "returned"
    /\ Len(historial) = 2
    /\ Len(people) >= 2

\* C6: a run of the pipeline parse_message -> build_eligibilities -> asignar on the
\* first six entries of GROUP_ORDER ends by returning a result or by raising the
\* infeasibility error after max_intentos attempts none of which was feasible; it
\* never fails in another way.
C6_SingleFailureOutcome ==
    /\ pc # "keyerror"
    /\ pc = "raised" =>
        /\ intento = max_intentos
        /\ \A i \in 1..Len(historial) : ~historial[i].factible

\* the names of the text, as the parser recorded them
ListedNames == Range(todo_any) \cup UNION {Range(group_lists[i].names) : i \in 1..Len(group_lists)}

HeadersOf(p) == {group_lists[i].g : i \in {j \in 1..Len(group_lists) : p \in Range(group_lists[j].names)}}

\* a name without leading, trailing or repeated whitespace
Normalized(p) ==
    /\ p # <<>>
    /\ p[1] # " " /\ p[Len(p)] # " "
    /\ \A i \in 1..(Len(p) - 1) : ~(p[i] = " " /\ p[i + 1] = " ")

\* C7: build_eligibilities gives each distinct normalized name exactly one
\* eligibility set: the full known slot set if the name occurs in the TODO section
\* (whether or not it also occurs under headers), otherwise exactly the set of slots
\* under whose headers it occurs; repeated occurrences yield one person.
C7_EligibilityUnion ==
    pc = "built" =>
        /\ Range(people) = ListedNames
        /\ \A i, j \in 1..Len(people) : i # j => people[i] # people[j]
        /\ \A p \in Range(people) : Normalized(p)
        /\ DOMAIN allowed = Range(people)
        /\ \A p \in Range(people) :
            allowed[p] = IF p \in Range(todo_any) THEN Range(all_groups) ELSE HeadersOf(p)

\* a person listed twice, under two different headers, and not in the TODO section
C7_Witness ==
    /\ pc = "built"
    /\ \E p \in Range(people) :
        /\ p \notin Range(todo_any)
        /\ Cardinality(HeadersOf(p)) = 2
        /\ allowed[p] = HeadersOf(p)

\* C8: a run on a text yields the known slot list and the eligibility sets that a
\* run on that text in a freshly started process yields: the slot list holds the six
\* canonical slots and the extra slots named by the run's own text, nothing else.
C8_NoStateAcrossRuns ==
    pc = "built" =>
        /\ all_groups = ref_groups
        /\ allowed = ref_allowed

\* C9: when every person is eligible for every slot of the slot list, every attempt
\* places each slot exactly at its target, and asignar returns on the first attempt
\* with RealizedSizes equal to TargetSizes and spread at most 1.
C9_AllAnySlot ==
    (InAsignar /\ \A p \in Range(people) : Range(groups) \subseteq allowed[p]) =>
        /\ \A i \in 1..Len(historial) :
            historial[i].factible /\ historial[i].tam = objetivos
        /\ pc \in Terminal =>
            /\ pc = "returned"
            /\ intento = 1
            /\ result[1].tam = objetivos
            /\ Spread(result[1].tam) <= 1

\* C10: the loop runs at most max_intentos attempts; no attempt follows a feasible
\* attempt with zero deviation and spread <= 1, and asignar returns that attempt;
\* otherwise it returns, after max_intentos attempts, the earliest of the feasible
\* attempts of minimal score, with the sizes and the assignment of that attempt.
C10_BestOfAttempts ==
    LET H == historial
        F == {i \in 1..Len(H) : H[i].factible}
        Exit(i) == i \in F /\ Dev(H[i].tam, objetivos) = 0 /\ Spread(H[i].tam) <= 1
        Best(i) ==
            /\ i \in F
            /\ \A j \in F : H[i].score <= H[j].score
            /\ \A j \in F : H[j].score = H[i].score => i <= j
        Is(i) ==
            /\ result[1].asign = H[i].asign
            /\ result[1].tam = H[i].tam
            /\ result[1].objetivos = objetivos
    IN  InAsignar =>
            /\ Len(H) <= max_intentos /\ intento <= max_intentos
            /\ \A i \in 1..Len(H) :
                /\ H[i].factible => H[i].score = 10 * Dev(H[i].tam, objetivos) + Spread(H[i].tam)
                /\ Exit(i) => i = Len(H) /\ pc = "returned"
            /\ pc = "returned" =>
                IF H # <<>> /\ Exit(Len(H)) THEN Is(Len(H))
                ELSE /\ Len(H) = max_intentos
                     /\ \E i \in F : Best(i) /\ Is(i)

\* asignar returned the first of two attempts although the second one, of the same
\* score, built another assignment
C10_Witness ==
    /\ pc = "returned"
    /\ Len(historial) = 2
    /\ historial[1].factible /\ historial[2].factible
    /\ historial[1].score = historial[2].score
    /\ historial[1].asign # historial[2].asign
    /\ result[1].asign = historial[1].asign

(***************************************************************************)
(* Placement steps: what one iteration of "for p in orden" did, read off   *)
(* the state before and the state after it.                                *)
(***************************************************************************)
\* the step just taken placed a person
Placed == InAsignar /\ pc = "place" /\ factible /\ pos <= Len(orden) /\ pos' = pos + 1

\* the person placed, the slot the person got, and the occupied counts and the
\* targets of the person's eligible slots before the placement
PlacedPerson == orden[pos]
PlacedSlot == asign'[PlacedPerson]
CountOf(g) == tam[IndexOf(groups, g)]
TargetOf(g) == objetivos[IndexOf(groups, g)]
UnderTarget == {g \in allowed[PlacedPerson] : CountOf(g) < TargetOf(g)}

\* C11: in every placement step the person gets one of the person's eligible slots
\* and that slot's count grows by one; if some eligible slot is below its target the
\* slot chosen is below its target; a slot that is already at or above its target
\* takes the person only when every eligible slot of the person has met its target.
C11_Step ==
    Placed =>
        /\ PlacedSlot \in allowed[PlacedPerson]
        /\ tam' = [tam EXCEPT ![IndexOf(groups, PlacedSlot)] = @ + 1]
        /\ UnderTarget # {} => PlacedSlot \in UnderTarget
        /\ CountOf(PlacedSlot) >= TargetOf(PlacedSlot) =>
               \A g \in allowed[PlacedPerson] : CountOf(g) >= TargetOf(g)

C11_UnderTargetFirst == [][C11_Step]_vars

\* an attempt in which a slot has been pushed above its target (every eligible slot
\* of the person had met its target) after another placement went to a slot below
\* its target
C11_Witness ==
    /\ pc = "place"
    /\ factible
    /\ pos > 2
    /\ \E i \in 1..Len(tam) : tam[i] > objetivos[i]
    /\ \E i \in 1..Len(tam) : tam[i] > 0 /\ tam[i] <= objetivos[i]

\* the candidates of the step: the eligible slots below their target if there is
\* one, else all eligible slots; and the least occupied count among them
StepCandidates == IF UnderTarget # {} THEN UnderTarget ELSE allowed[PlacedPerson]
LeastCount == MinOf({CountOf(g) : g \in StepCandidates})
LeastOccupied == {g \in StepCandidates : CountOf(g) = LeastCount}

\* C12: in every placement step the slot chosen is a candidate of the step with the
\* least occupied count among the candidates; it is a lunch slot whenever some
\* candidate at that least count is a lunch slot, so a dinner slot is chosen only
\* when every candidate at the least count is a dinner slot.
C12_Step ==
    Placed =>
        /\ PlacedSlot \in LeastOccupied
        /\ (\E g \in LeastOccupied : ~IsDinner(g)) => ~IsDinner(PlacedSlot)
        /\ IsDinner(PlacedSlot) => \A g \in LeastOccupied : IsDinner(g)

C12_LeastCountLunchFirst == [][C12_Step]_vars

\* the last placement found a lunch slot and a dinner slot of the person tied at
\* the least count, both at or above their targets, and went to the lunch slot;
\* an earlier placement of the attempt went to a dinner slot
C12_Witness ==
    /\ pc = "place"
    /\ factible
    /\ pos > 1
    /\ LET p == orden[pos - 1]
           l == IndexOf(groups, asign[p])
       IN  /\ ~IsDinner(asign[p])
           /\ tam[l] - 1 >= objetivos[l]
           /\ \E d \in allowed[p] :
                /\ IsDinner(d)
                /\ tam[IndexOf(groups, d)] = tam[l] - 1
                /\ tam[IndexOf(groups, d)] >= objetivos[IndexOf(groups, d)]
                /\ tam[IndexOf(groups, d)] > 0

\* C13: among the finished feasible attempts of one call, an attempt of strictly
\* smaller total deviation has the strictly smaller score whatever the two spreads,
\* between attempts of equal deviation the smaller spread has the smaller score, and
\* the attempt asignar returns has the least deviation of all feasible attempts run.
C13_DeviationFirst ==
    LET H == historial
        F == {i \in 1..Len(H) : H[i].factible}
        D(i) == Dev(H[i].tam, objetivos)
    IN  InAsignar =>
            /\ \A i, j \in F :
                /\ D(i) < D(j) => H[i].score < H[j].score
                /\ D(i) = D(j) =>
                       (H[i].score < H[j].score <=> Spread(H[i].tam) < Spread(H[j].tam))
            /\ pc = "returned" =>
                   \A i \in F : Dev(result[1].tam, objetivos) <= D(i)
====
